---------------------------- MODULE Spec2Model ----------------------------
(***************************************************************************)
(* ReadPointCloudFromPTS / WritePointCloudToPTS of                         *)
(* cpp/open3d/t/io/file_format/FilePTS.cpp as a state machine.             *)
(*                                                                         *)
(* A file is a sequence of lines, a line a sequence of space-separated     *)
(* tokens.  A double is kept to 11 decimal places (one more than "%.10f"   *)
(* prints), so formatting rounds and a round trip is not the identity.     *)
(***************************************************************************)
EXTENDS Integers, Sequences, FiniteSets

\* ------------------------------------------------------------------ bounds
MaxPts == 2          \* rows of the cloud handed to the writer
MaxDeclared == 3     \* largest point count a header of an input file declares
MaxLines == 3        \* data lines of an input file

\* ------------------------------------------------------- numbers and text
Digits == 10         \* fraction digits of "%.10f"
HiBase == 10 ^ (Digits \div 2)   \* hi holds the first half of them
ByteRange == 256     \* values of a uint8_t

\* The double  (-1)^neg * (ip + hi/10^5 + lo/10^11): lo holds fraction
\* digits 6..11, one more than is printed.
Dbl(neg, ip, hi, lo) == [neg |-> neg, ip |-> ip, hi |-> hi, lo |-> lo]

\* Tokens of a line.  "fix": a decimal numeral with a fraction part,
\* (-1)^neg * (ip + hi/10^5 + lo/10^10), lo being fraction digits 6..10;
\* "int": an integer numeral; "junk": text that starts no number.
FixTok(neg, ip, hi, lo) == [k |-> "fix", neg |-> neg, ip |-> ip, hi |-> hi, lo |-> lo]
IntTok(v) == [k |-> "int", neg |-> v < 0, ip |-> IF v < 0 THEN -v ELSE v, hi |-> 0, lo |-> 0]
JunkTok == [k |-> "junk", neg |-> FALSE, ip |-> 0, hi |-> 0, lo |-> 0]

\* Faulty variant of PrintF10: drops the 11th digit instead of rounding.
PrintF10_Truncating(d) == FixTok(d.neg, d.ip, d.hi, d.lo \div 10)

\* printf("%.10f", d): round to 10 fraction digits (ties to even), carrying
\* into the higher digits.
PrintF10(d) ==
    LET q == d.lo \div 10
        r == d.lo % 10
        up == r > 5 \/ (r = 5 /\ q % 2 = 1)
        lo5 == IF up THEN q + 1 ELSE q
        c1 == IF lo5 = HiBase THEN 1 ELSE 0
        hi1 == d.hi + c1
        c2 == IF hi1 = HiBase THEN 1 ELSE 0
    IN FixTok(d.neg, d.ip + c2, hi1 - c2 * HiBase, lo5 - c1 * HiBase)

\* printf("%d", c) of a uint8_t, and printf("%zu", n).
PrintD(c) == IntTok(c)

\* The value sscanf's %lf stores for a numeric token.
ScanLf(tok) ==
    IF tok.k = "fix" THEN Dbl(tok.neg, tok.ip, tok.hi, tok.lo * 10)
    ELSE Dbl(tok.neg, tok.ip, 0, 0)

\* The value sscanf's %d (or %zu) stores for a numeric token: its integer
\* digits; of a "fix" token the fraction stays unread.
ScanD(tok) == IF tok.neg THEN -tok.ip ELSE tok.ip

\* Number of conversions sscanf(line, fmt) performs: it stops at the end of
\* the line, at a token that starts no number, and after a %d that left a
\* fraction unread (the next directive then meets ".").
RECURSIVE MatchCount(_, _, _)
MatchCount(line, fmt, i) ==
    IF i > Len(fmt) \/ i > Len(line) THEN i - 1
    ELSE IF line[i].k = "junk" THEN i - 1
    ELSE IF fmt[i] = "d" /\ line[i].k = "fix" THEN i
    ELSE MatchCount(line, fmt, i + 1)

Sscanf(line, fmt) == MatchCount(line, fmt, 1)

Fmt7 == <<"lf", "lf", "lf", "lf", "d", "d", "d">>
Fmt4 == <<"lf", "lf", "lf", "lf">>
Fmt3 == <<"lf", "lf", "lf">>
FmtZu == <<"d">>

\* Assignment of an int to a uint8_t.
ToUInt8(v) == v % ByteRange

\* utility::SplitString(st, line_buffer, " "): the tokens of the line.
SplitString(line) == line

\* ------------------------------------------------------------ point cloud
\* geometry::PointCloud: a map from attribute names to tensors; a tensor is
\* the sequence of its rows.
EmptyCloud == [a \in {} |-> <<>>]

Clear(cloud) == EmptyCloud

SetPointAttr(cloud, key, value) ==
    [a \in DOMAIN cloud \cup {key} |-> IF a = key THEN value ELSE cloud[a]]

SetPoints(cloud, value) == SetPointAttr(cloud, "points", value)

SetPointColors(cloud, value) == SetPointAttr(cloud, "colors", value)

HasPointAttr(cloud, key) == key \in DOMAIN cloud /\ Len(cloud[key]) > 0

HasPointColors(cloud) == HasPointAttr(cloud, "colors")

IsEmpty(cloud) == ~HasPointAttr(cloud, "points")

\* core::Tensor(): no rows.
NoTensor == <<>>

\* core::Tensor({n, ..}, dtype): n rows of uninitialised memory, here all
\* holding the arbitrary row fill.
NewTensor(n, fill) == [r \in 1..n |-> fill]

\* ----------------------------------------------------------------- inputs
D0 == Dbl(FALSE, 0, 0, 0)                    \* 0
D1 == Dbl(FALSE, 5, 50000, 0)                \* 5.5
D2 == Dbl(FALSE, 1, 0, 4)                    \* 1.00000000004
D3 == Dbl(TRUE, 0, 99999, 999995)            \* -0.99999999995
D4 == Dbl(FALSE, 2, 0, 16)                   \* 2.00000000016

PointSamples == {<<D0, D1, D3>>, <<D2, D4, D0>>}
IntensitySamples == {D1, D4}
ColorSamples == {<<255, 0, 0>>, <<0, 128, 7>>}

\* What freshly allocated memory may hold: a points row, an intensity and a
\* colors row.
GarbageSamples ==
    { [p |-> <<D4, D4, D4>>, it |-> D0, c |-> <<9, 9, 9>>],
      [p |-> <<D0, D1, D3>>, it |-> D1, c |-> <<255, 0, 0>>] }

SeqsUpTo(S, n) == UNION {[1..m -> S] : m \in 0..n}

\* The clouds handed to the writer: n rows of points, and each attribute
\* either absent or of n rows.
CloudsOf(n) ==
    { [a \in {"points"} \cup (IF hi THEN {"intensities"} ELSE {})
                        \cup (IF hc THEN {"colors"} ELSE {}) |->
          IF a = "points" THEN p ELSE IF a = "intensities" THEN it ELSE c] :
      hi \in BOOLEAN, hc \in BOOLEAN,
      p \in [1..n -> PointSamples], it \in [1..n -> IntensitySamples],
      c \in [1..n -> ColorSamples] }

Clouds == {EmptyCloud} \cup UNION {CloudsOf(n) : n \in 1..MaxPts}

\* What the reader's output cloud holds before the call.
StaleCloud ==
    [a \in {"points", "colors"} |->
        IF a = "points" THEN << <<D1, D1, D1>> >> ELSE << <<1, 2, 3>> >>]

OutSamples == {EmptyCloud, StaleCloud}

F55 == FixTok(FALSE, 5, 50000, 0)            \* "5.5"
F32 == FixTok(FALSE, 3, 20000, 0)            \* "3.2"
F15 == FixTok(FALSE, 1, 50000, 0)            \* "1.5"

LineSamples ==
    { <<IntTok(1), IntTok(2), IntTok(3)>>,                       \* "1 2 3"
      <<IntTok(0), IntTok(0), IntTok(0), F55>>,                  \* "0 0 0 5.5"
      <<IntTok(1), IntTok(1), IntTok(1), F32,
        IntTok(0), IntTok(300), IntTok(-1)>>,             \* "1 1 1 3.2 0 300 -1"
      <<IntTok(2), IntTok(2), IntTok(2), IntTok(1),
        IntTok(9), IntTok(8), IntTok(7), JunkTok>>,       \* "2 2 2 1 9 8 7 x"
      <<IntTok(1), IntTok(1), IntTok(1), F32, IntTok(7)>>,       \* "1 1 1 3.2 7"
      <<IntTok(1), IntTok(2)>>,                                  \* "1 2"
      <<IntTok(0), IntTok(0), IntTok(0), F55,
        F15, IntTok(2), IntTok(3)>>,                      \* "0 0 0 5.5 1.5 2 3"
      <<JunkTok, IntTok(0), IntTok(0), F55>>,                    \* "x 0 0 5.5"
      <<IntTok(1), IntTok(2), IntTok(3), JunkTok,
        IntTok(4), IntTok(5), IntTok(6)>>,                \* "1 2 3 x 4 5 6"
      <<>> }                                                     \* ""

HeaderSamples == {<<IntTok(n)>> : n \in 0..MaxDeclared} \cup {<<JunkTok>>}

\* A file on disk: absent, or its lines.
NoFile == [exists |-> FALSE, lines |-> <<>>]
File(lines) == [exists |-> TRUE, lines |-> lines]

InputFiles ==
    {NoFile, File(<<>>)} \cup
    {File(<<h>> \o b) : h \in HeaderSamples, b \in SeqsUpTo(LineSamples, MaxLines)}

\* ------------------------------------------------------------------ state
VARIABLES
    disk,            \* the file at filename
    pointcloud,      \* the writer's const geometry::PointCloud &pointcloud
    out,             \* the reader's geometry::PointCloud &pointcloud
    pc,              \* "idle", "rloop" (reader's while), "wloop" (writer's for)
    rret, wret,      \* what the last read / write call returned, "none" before
    log,             \* the warning the last call logged, "" if none
    num_of_pts, idx, num_of_fields,         \* reader's locals
    points, intensities, colors,            \* reader's local tensors
    nread,           \* lines the reader's file handle has consumed
    stored,          \* rows the reader's loop has stored into
    i                \* writer's loop index

vars == <<disk, pointcloud, out, pc, rret, wret, log, num_of_pts, idx,
          num_of_fields, points, intensities, colors, nread, stored, i>>

rlocals == <<num_of_pts, idx, num_of_fields, points, intensities, colors,
             nread, stored>>

Init ==
    /\ \/ pointcloud \in Clouds /\ disk = NoFile
       \/ pointcloud = EmptyCloud /\ disk \in InputFiles
    /\ out \in OutSamples
    /\ pc = "idle" /\ rret = "none" /\ wret = "none" /\ log = ""
    /\ num_of_pts = 0 /\ idx = 0 /\ num_of_fields = 0
    /\ points = NoTensor /\ intensities = NoTensor /\ colors = NoTensor
    /\ nread = 0 /\ stored = {}
    /\ i = 0

\* ----------------------------------------------------------------- reader
\* file.ReadLine(): the next line, if the file has one.
HasLine == nread < Len(disk.lines)
NextLine == disk.lines[nread + 1]

\* sscanf(line_buffer, "%zu", &num_of_pts) on the header, num_of_pts
\* staying 0 when nothing converts (headers here carry no sign).
HeaderCount(lines) ==
    IF Len(lines) >= 1 /\ Sscanf(lines[1], FmtZu) = 1 THEN ScanD(lines[1][1]) ELSE 0

HeaderBad(n) == n <= 0

NeedsIntensities(nf) == nf >= 4

\* Faulty variant of NeedsColors: colors as soon as a field follows I.
NeedsColors_Loose(nf) == nf > 4

NeedsColors(nf) == nf >= 7

InsufficientFields(nf) == nf < 3

\* Faulty variant of UnequalElements: any other token count is rejected.
UnequalElements_Strict(nf, st) == nf # Len(st)

UnequalElements(nf, st) == nf > Len(st)

\* Faulty variant of Committed: the field count follows every line.
Committed_EveryLine(nf0, st) == Len(st)

\* Faulty variant of AllocLength: one row too many.
AllocLength_OneMore(n) == n + 1

\* The first extent of the shapes {(int64_t)num_of_pts, 3} and
\* {(int64_t)num_of_pts, 1} the tensors are allocated with.
AllocLength(n) == n

\* The field count after the if (num_of_fields == 0) block's assignment.
Committed(nf0, st) == IF nf0 = 0 THEN Len(st) ELSE nf0

\* The while condition.
LoopCond == idx < num_of_pts /\ HasLine

\* Faulty variant of Layout: the branches tried poorest first.
Layout_PoorestFirst(nf, line) ==
    IF Sscanf(line, Fmt3) = 3 THEN 3
    ELSE IF nf >= 4 /\ Sscanf(line, Fmt4) = 4 THEN 4
    ELSE IF nf >= 7 /\ Sscanf(line, Fmt7) = 7 THEN 7
    ELSE 0

\* Which branch of the if / else if chain stores the line: 7, 4, 3, or 0
\* when none does.
Layout(nf, line) ==
    IF nf >= 7 /\ Sscanf(line, Fmt7) = 7 THEN 7
    ELSE IF nf >= 4 /\ Sscanf(line, Fmt4) = 4 THEN 4
    ELSE IF Sscanf(line, Fmt3) = 3 THEN 3
    ELSE 0

\* The row index a line is stored at (rows are numbered from 1 here).
Row(k) == k + 1

XYZ(line) == <<ScanLf(line[1]), ScanLf(line[2]), ScanLf(line[3])>>
RGB(line) == <<ToUInt8(ScanD(line[5])), ToUInt8(ScanD(line[6])), ToUInt8(ScanD(line[7]))>>

ReadOpen ==
    /\ pc = "idle"
    /\ idx' = 0 /\ num_of_fields' = 0 /\ stored' = {}
    /\ points' = NoTensor /\ intensities' = NoTensor /\ colors' = NoTensor
    /\ UNCHANGED <<disk, pointcloud, wret, i>>
    /\ IF ~disk.exists
       THEN /\ rret' = "false"
            /\ log' = "Read PTS failed: unable to open file"
            /\ num_of_pts' = 0 /\ nread' = 0
            /\ UNCHANGED <<out, pc>>
       ELSE /\ num_of_pts' = HeaderCount(disk.lines)
            /\ nread' = IF Len(disk.lines) >= 1 THEN 1 ELSE 0
            /\ IF HeaderBad(num_of_pts')
               THEN /\ rret' = "false"
                    /\ log' = "Read PTS failed: unable to read header."
                    /\ UNCHANGED <<out, pc>>
               ELSE /\ out' = Clear(out)
                    /\ rret' = "none" /\ log' = ""
                    /\ pc' = "rloop"

ReadLine ==
    /\ pc = "rloop" /\ LoopCond
    /\ \E g \in GarbageSamples :
        LET line == NextLine
            st == SplitString(line)
            first == num_of_fields = 0
            nf == Committed(num_of_fields, st)
            pts0 == IF first THEN NewTensor(AllocLength(num_of_pts), g.p) ELSE points
            int0 == IF first /\ NeedsIntensities(nf)
                    THEN NewTensor(AllocLength(num_of_pts), g.it) ELSE intensities
            col0 == IF first /\ NeedsColors(nf)
                    THEN NewTensor(AllocLength(num_of_pts), g.c) ELSE colors
            lay == Layout(nf, line)
        IN /\ nread' = nread + 1
           /\ num_of_fields' = nf
           /\ UNCHANGED <<disk, pointcloud, out, wret, i, num_of_pts>>
           /\ IF first /\ InsufficientFields(nf)
              THEN /\ rret' = "false"
                   /\ log' = "Read PTS failed: insufficient data fields."
                   /\ pc' = "idle"
                   /\ UNCHANGED <<idx, points, intensities, colors, stored>>
              ELSE IF UnequalElements(nf, st)
              THEN /\ rret' = "false"
                   /\ log' = "Read PTS failed: lines have unequal elements."
                   /\ pc' = "idle"
                   /\ points' = pts0 /\ intensities' = int0 /\ colors' = col0
                   /\ UNCHANGED <<idx, stored>>
              ELSE /\ points' = IF lay >= 3
                                THEN [pts0 EXCEPT ![Row(idx)] = XYZ(line)] ELSE pts0
                   /\ intensities' = IF lay >= 4
                                     THEN [int0 EXCEPT ![Row(idx)] = ScanLf(line[4])]
                                     ELSE int0
                   /\ colors' = IF lay >= 7
                                THEN [col0 EXCEPT ![Row(idx)] = RGB(line)] ELSE col0
                   /\ stored' = IF lay >= 3 THEN stored \cup {Row(idx)} ELSE stored
                   /\ idx' = idx + 1
                   /\ UNCHANGED <<rret, log, pc>>

\* The cloud after SetPoints and the two conditional attribute assignments.
Populate(cloud) ==
    LET c1 == SetPoints(cloud, points)
        c2 == IF NeedsIntensities(num_of_fields)
              THEN SetPointAttr(c1, "intensities", intensities) ELSE c1
    IN IF NeedsColors(num_of_fields) THEN SetPointColors(c2, colors) ELSE c2

\* Faulty variant of ReadFinish: a file that ends before the declared count
\* is reported as a failure.
ReadFinish_EofIsError ==
    /\ pc = "rloop" /\ ~LoopCond
    /\ IF idx < num_of_pts
       THEN /\ rret' = "false"
            /\ log' = "Read PTS failed: unexpected end of file."
            /\ UNCHANGED out
       ELSE /\ out' = Populate(out)
            /\ rret' = "true"
            /\ UNCHANGED log
    /\ pc' = "idle"
    /\ UNCHANGED <<disk, pointcloud, wret, i, rlocals>>

ReadFinish ==
    /\ pc = "rloop" /\ ~LoopCond
    /\ out' = Populate(out)
    /\ rret' = "true" /\ pc' = "idle"
    /\ UNCHANGED <<disk, pointcloud, wret, log, i, rlocals>>

\* ----------------------------------------------------------------- writer
NumPoints(cloud) == Len(cloud["points"])

\* Faulty variant of WriteLayout: the intensity branch tested first.
WriteLayout_IntensityFirst(cloud) ==
    IF HasPointAttr(cloud, "intensities") THEN 4
    ELSE IF HasPointColors(cloud) /\ HasPointAttr(cloud, "intensities") THEN 7
    ELSE 3

\* Which fprintf of the for loop's if / else if chain runs: 7, 4 or 3 fields.
WriteLayout(cloud) ==
    IF HasPointColors(cloud) /\ HasPointAttr(cloud, "intensities") THEN 7
    ELSE IF HasPointAttr(cloud, "intensities") THEN 4
    ELSE 3

\* The line the fprintf prints for row r.
WriteRowText(cloud, r) ==
    LET xyz == <<PrintF10(cloud["points"][r][1]), PrintF10(cloud["points"][r][2]),
                 PrintF10(cloud["points"][r][3])>>
        lay == WriteLayout(cloud)
    IN IF lay = 7
       THEN xyz \o <<PrintF10(cloud["intensities"][r]),
                     PrintD(cloud["colors"][r][1]), PrintD(cloud["colors"][r][2]),
                     PrintD(cloud["colors"][r][3])>>
       ELSE IF lay = 4 THEN xyz \o <<PrintF10(cloud["intensities"][r])>>
       ELSE xyz

WriteHeaderText(cloud) == <<PrintD(NumPoints(cloud))>>

\* Faulty variant of WriteOpen: the header is printed before the cloud is
\* tested for emptiness.
WriteOpen_HeaderFirst ==
    /\ pc = "idle"
    /\ i' = 0 /\ rret' = "none"
    /\ UNCHANGED <<pointcloud, out, rlocals>>
    /\ \E opened \in BOOLEAN :
        IF ~opened
        THEN /\ wret' = "false"
             /\ log' = "Write PTS failed: unable to open file"
             /\ UNCHANGED <<disk, pc>>
        ELSE IF IsEmpty(pointcloud)
        THEN /\ disk' = File(<< <<PrintD(0)>> >>)
             /\ wret' = "false"
             /\ log' = "Write PTS failed: point cloud has 0 points."
             /\ UNCHANGED pc
        ELSE /\ disk' = File(<<WriteHeaderText(pointcloud)>>)
             /\ wret' = "none" /\ log' = ""
             /\ pc' = "wloop"

\* file.Open(filename, "w") may fail, and so may each fprintf.
WriteOpen ==
    /\ pc = "idle"
    /\ i' = 0 /\ rret' = "none"
    /\ UNCHANGED <<pointcloud, out, rlocals>>
    /\ \E opened \in BOOLEAN, printed \in BOOLEAN :
        IF ~opened
        THEN /\ wret' = "false"
             /\ log' = "Write PTS failed: unable to open file"
             /\ UNCHANGED <<disk, pc>>
        ELSE IF IsEmpty(pointcloud)
        THEN /\ disk' = File(<<>>)
             /\ wret' = "false"
             /\ log' = "Write PTS failed: point cloud has 0 points."
             /\ UNCHANGED pc
        ELSE IF ~printed
        THEN /\ disk' = File(<<>>)
             /\ wret' = "false"
             /\ log' = "Write PTS failed: unable to write file"
             /\ UNCHANGED pc
        ELSE /\ disk' = File(<<WriteHeaderText(pointcloud)>>)
             /\ wret' = "none" /\ log' = ""
             /\ pc' = "wloop"

WriteRow ==
    /\ pc = "wloop" /\ i < NumPoints(pointcloud)
    /\ UNCHANGED <<pointcloud, out, rret, rlocals>>
    /\ \E printed \in BOOLEAN :
        IF ~printed
        THEN /\ wret' = "false"
             /\ log' = "Write PTS failed: unable to write file"
             /\ pc' = "idle"
             /\ UNCHANGED <<disk, i>>
        ELSE /\ disk' = File(Append(disk.lines, WriteRowText(pointcloud, Row(i))))
             /\ i' = i + 1
             /\ UNCHANGED <<wret, log, pc>>

WriteFinish ==
    /\ pc = "wloop" /\ ~(i < NumPoints(pointcloud))
    /\ wret' = "true" /\ pc' = "idle"
    /\ UNCHANGED <<disk, pointcloud, out, rret, log, i, rlocals>>

Next == ReadOpen \/ ReadLine \/ ReadFinish \/ WriteOpen \/ WriteRow \/ WriteFinish

Spec == Init /\ [][Next]_vars

\* ----------------------------------------------------------------- claims
\* What the claims say of a file, read off the file itself.
Declared(f) == f.lines[1][1].ip
DataLines(f) == Len(f.lines) - 1
DataLine(f, j) == f.lines[j + 1]
Consumed(f) == IF DataLines(f) < Declared(f) THEN DataLines(f) ELSE Declared(f)

HeaderRejected(f) ==
    \/ Len(f.lines) = 0
    \/ Len(f.lines[1]) = 0
    \/ f.lines[1][1].k = "junk"
    \/ f.lines[1][1].ip = 0

FirstLineShort(f) == DataLines(f) >= 1 /\ Len(DataLine(f, 1)) < 3

LaterLineShort(f) ==
    \E j \in 2..Consumed(f) : Len(DataLine(f, j)) < Len(DataLine(f, 1))

\* a is b to within half a unit of the 10th decimal place, and has no
\* digit beyond it.
Near(a, b) ==
    /\ a.neg = b.neg
    /\ a.lo % 10 = 0
    /\ LET ds == (a.ip * HiBase + a.hi) - (b.ip * HiBase + b.hi)
       IN /\ ds \in {-1, 0, 1}
          /\ LET d == ds * (10 * HiBase) + a.lo - b.lo
             IN -5 <= d /\ d <= 5

AttrSets == {{"points"}, {"points", "intensities"}, {"points", "intensities", "colors"}}

\* C1: a cloud with positions only, positions + intensities or positions +
\* intensities + colors that was written successfully is read back
\* successfully, with the same number of rows, the same attributes, the same
\* colors, and every double within the precision of 10 decimals.
C1_RoundTrip ==
    (wret = "true" /\ rret # "none" /\ DOMAIN pointcloud \in AttrSets) =>
        /\ rret = "true"
        /\ DOMAIN out = DOMAIN pointcloud
        /\ \A a \in DOMAIN out : Len(out[a]) = Len(pointcloud["points"])
        /\ \A r \in 1..Len(pointcloud["points"]) :
            /\ \A k \in 1..3 : Near(out["points"][r][k], pointcloud["points"][r][k])
            /\ "intensities" \in DOMAIN pointcloud =>
                   Near(out["intensities"][r], pointcloud["intensities"][r])
            /\ "colors" \in DOMAIN pointcloud =>
                   out["colors"][r] = pointcloud["colors"][r]

C1_Witness ==
    /\ wret = "true" /\ rret = "true"
    /\ DOMAIN pointcloud = {"points", "intensities", "colors"}
    /\ Len(pointcloud["points"]) >= 2
    /\ out # pointcloud

\* C2: after a successful read of a file whose first data line has k >= 3
\* tokens the cloud has positions, has intensities iff k >= 4 and has colors
\* iff k >= 7.
C2_SchemaInference ==
    (rret = "true" /\ DataLines(disk) >= 1) =>
        LET k == Len(DataLine(disk, 1))
        IN /\ k >= 3
           /\ HasPointAttr(out, "points")
           /\ ("intensities" \in DOMAIN out) <=> (k >= 4)
           /\ ("colors" \in DOMAIN out) <=> (k >= 7)
           /\ DOMAIN out \subseteq {"points", "intensities", "colors"}

C2_Witness ==
    /\ rret = "true" /\ DataLines(disk) >= 1
    /\ Len(DataLine(disk, 1)) = 5
    /\ DOMAIN out = {"points", "intensities"}

\* C3: a read of an existing file returns false exactly when the header is
\* absent, unparsable or declares 0, or the first data line has fewer than
\* 3 tokens, or a later consumed data line has fewer tokens than the first;
\* so a line with more tokens than the first never makes it fail.
C3_Rejection ==
    (rret # "none" /\ disk.exists) =>
        (rret = "false" <=>
            \/ HeaderRejected(disk)
            \/ FirstLineShort(disk)
            \/ LaterLineShort(disk))

C3_Witness ==
    /\ rret = "false" /\ disk.exists
    /\ ~HeaderRejected(disk) /\ ~FirstLineShort(disk) /\ LaterLineShort(disk)
    /\ \E j \in 2..Consumed(disk) : Len(DataLine(disk, j)) > Len(DataLine(disk, 1))

\* C4: after a read that returned false the output cloud holds no positions
\* and no attributes, whatever it held before the call.
C4_AtomicAbort == rret = "false" => out = EmptyCloud

\* C5: a file that declares N and holds M < N data lines, none too short,
\* is read successfully, and the loop has stored at most M rows (rows among
\* the first M).
C5_TruncationTolerance ==
    (/\ rret # "none" /\ disk.exists /\ ~HeaderRejected(disk)
     /\ DataLines(disk) < Declared(disk)
     /\ ~FirstLineShort(disk) /\ ~LaterLineShort(disk)) =>
        /\ rret = "true"
        /\ Cardinality(stored) <= DataLines(disk)
        /\ stored \subseteq 1..DataLines(disk)

C5_Witness ==
    /\ rret = "true" /\ disk.exists
    /\ Declared(disk) = 3 /\ DataLines(disk) = 2
    /\ Cardinality(stored) = 2

\* C6, as claimed: after every successful read of a file declaring N points,
\* files without a data line included, the positions have exactly N rows and
\* every attribute present has as many rows as the positions.
C6_RowCounts_Claimed ==
    rret = "true" =>
        /\ "points" \in DOMAIN out
        /\ Len(out["points"]) = Declared(disk)
        /\ \A a \in DOMAIN out : Len(out[a]) = Len(out["points"])

\* C6, amended: after every successful read of a file declaring N points
\* that holds at least one data line, the positions have exactly N rows and
\* every attribute present has as many rows as the positions.
C6_RowCounts ==
    (rret = "true" /\ DataLines(disk) >= 1) =>
        /\ "points" \in DOMAIN out
        /\ Len(out["points"]) = Declared(disk)
        /\ \A a \in DOMAIN out : Len(out[a]) = Len(out["points"])

C6_Witness ==
    /\ rret = "true"
    /\ DataLines(disk) >= 1 /\ DataLines(disk) < Declared(disk)
    /\ DOMAIN out = {"points", "intensities", "colors"}
    /\ Len(out["colors"]) = Declared(disk)

\* C7: a successful write of a cloud of N points leaves a header carrying N
\* and exactly N data lines, all of 7 fields X Y Z I R G B when the cloud has
\* colors and intensities, of 4 fields X Y Z I when it has intensities and no
\* colors, and of 3 fields X Y Z otherwise (colors without intensities are
\* dropped).
C7_WriterLayout ==
    wret = "true" =>
        LET n == Len(pointcloud["points"])
            hasI == "intensities" \in DOMAIN pointcloud
            hasC == "colors" \in DOMAIN pointcloud
            want == IF hasI /\ hasC THEN 7 ELSE IF hasI THEN 4 ELSE 3
        IN /\ disk.exists
           /\ disk.lines[1] = <<IntTok(n)>>
           /\ DataLines(disk) = n
           /\ \A r \in 1..n :
               /\ Len(DataLine(disk, r)) = want
               /\ \A k \in 1..want :
                      DataLine(disk, r)[k].k = (IF k <= 4 THEN "fix" ELSE "int")
               /\ want = 7 =>
                      \A k \in 1..3 :
                          DataLine(disk, r)[4 + k] = IntTok(pointcloud["colors"][r][k])

C7_Witness ==
    /\ wret = "true"
    /\ DOMAIN pointcloud = {"points", "colors"}
    /\ DataLines(disk) = 2
    /\ Len(DataLine(disk, 2)) = 3

\* C8: a write of a cloud with zero points returns false without a header or
\* data line written: the file is left as it was or left existing and empty.
C8_EmptyCloudWrite ==
    [][(WriteOpen /\ pointcloud = EmptyCloud) =>
           /\ wret' = "false" /\ pc' = "idle"
           /\ disk' = disk \/ disk' = File(<<>>)]_vars

C8_Witness ==
    /\ pointcloud = EmptyCloud /\ wret = "false"
    /\ disk = File(<<>>)
    /\ log = "Write PTS failed: point cloud has 0 points."

\* What C9 asks of one step of the reader.
C9_Step ==
    pc = "rloop" =>
        /\ (num_of_fields = 0) <=> (nread = 1)
        /\ num_of_fields = 0 =>
            /\ points = NoTensor /\ intensities = NoTensor /\ colors = NoTensor
            /\ nread' = nread + 1 =>
                /\ num_of_fields' = Len(DataLine(disk, 1))
                /\ \/ num_of_fields' < 3 /\ rret' = "false" /\ pc' = "idle"
                   \/ /\ num_of_fields' >= 3
                      /\ Len(points') = num_of_pts
                      /\ Len(intensities') = (IF num_of_fields' >= 4 THEN num_of_pts ELSE 0)
                      /\ Len(colors') = (IF num_of_fields' >= 7 THEN num_of_pts ELSE 0)
        /\ num_of_fields # 0 =>
            /\ num_of_fields >= 3
            /\ num_of_fields' = num_of_fields
            /\ Len(points') = Len(points)
            /\ Len(intensities') = Len(intensities)
            /\ Len(colors') = Len(colors)
            /\ \A r \in 1..idx :
                /\ points'[r] = points[r]
                /\ intensities # NoTensor => intensities'[r] = intensities[r]
                /\ colors # NoTensor => colors'[r] = colors[r]

\* C9: during a read the committed field count is 0 until the first data
\* line, is then set once to that line's token count, at least 3 or else the
\* read aborts, and never changes afterwards; the arrays are allocated at
\* that same step and later lines neither re-allocate nor resize them.
C9_SchemaImmutable == [][C9_Step]_vars

C9_Witness ==
    /\ pc = "rloop" /\ num_of_fields = 7 /\ nread = 3
    /\ Len(DataLine(disk, 2)) = 8
    /\ idx = 2

\* Whether the line's first n tokens convert under "%lf %lf %lf %lf %d %d %d".
Parses(line, n) ==
    /\ Len(line) >= n
    /\ \A k \in 1..n : line[k].k # "junk"
    /\ \A k \in 5..(n - 1) : line[k].k = "int"

\* What C10 asks of one step of the reader that consumes a data line and goes on.
C10_Step ==
    (pc = "rloop" /\ pc' = "rloop" /\ nread' = nread + 1) =>
        LET line == DataLine(disk, nread)
            nf == Len(DataLine(disk, 1))
            lay == IF nf >= 7 /\ Parses(line, 7) THEN 7
                   ELSE IF nf >= 4 /\ Parses(line, 4) THEN 4
                   ELSE IF Parses(line, 3) THEN 3 ELSE 0
            row == idx + 1
        IN /\ nread = idx + 1
           /\ idx' = idx + 1
           /\ idx' <= Declared(disk)
           /\ stored' = (IF lay = 0 THEN stored ELSE stored \cup {row})
           /\ lay >= 3 => points'[row] = XYZ(line)
           /\ lay >= 4 => intensities'[row] = ScanLf(line[4])
           /\ lay = 7 => colors'[row] = RGB(line)
           /\ idx > 0 =>
               /\ \A r \in 1..Len(points) : (r # row \/ lay < 3) => points'[r] = points[r]
               /\ \A r \in 1..Len(intensities) :
                      (r # row \/ lay < 4) => intensities'[r] = intensities[r]
               /\ \A r \in 1..Len(colors) : (r # row \/ lay < 7) => colors'[r] = colors[r]

\* C10: a consumed data line that does not fail the read is stored in the row
\* of its own index only, under the richest of the layouts 7, 4, 3 that the
\* committed field count allows and that parses; a line that parses under
\* none stores nothing; either way the index advances by exactly one and
\* never exceeds the declared count.
C10_RowAlignment == [][C10_Step]_vars

C10_Witness ==
    /\ rret = "true" /\ idx = 2 /\ stored = {2}
    /\ num_of_fields = 4
    /\ Len(out["points"]) = 3

=============================================================================
